---- MODULE Spec2Model ----
(***************************************************************************)
(* Retirement planner with locked funds (src/app.py): the month-by-month   *)
(* fund simulator, the analysis at age 60 and the custom post-60           *)
(* drawdown projection, as one run of the script from its inputs to its    *)
(* last result.                                                            *)
(*                                                                         *)
(* Arithmetic.  The script computes in floating point; the model computes  *)
(* exactly.  The annual returns are chosen so that the monthly growth      *)
(* factor G = 1 + monthly_return = (1 + annual_return)^(1/12) is b, 1 or   *)
(* 1/b for an integer b >= 2 (for b = 2 the script's floats give exactly   *)
(* 2.0, 1.0 and 0.5).  A money amount is written positionally in base G:   *)
(* the sequence <<d0, d1, ..., dk>> is d0 + d1*G + ... + dk*G^k with small *)
(* integer digits, so that a multiplication by G is a shift and is exact   *)
(* over any number of months.  Comparisons evaluate the digits at the      *)
(* actual G (Sign).  A quotient is a pair of amounts (num, den).           *)
(***************************************************************************)
EXTENDS Integers, Sequences, FiniteSets, TLC

\* ------------------------------------------------------------------ bounds
YearsBefore60 == 2
YearsAfter60 == 1
Base == 2
InitialPairs == 1
MonthlyLockedAmount == 1
MonthlyUnlockedAmount == 1
LumpSumAmount == 1
TargetAmount == 3
CustomAmount == 1

\* ------------------------------------------------------- program constants
MonthsPerYear == 12
LockAge == 60

\* --------------------------------------------------------------- variables
VARIABLES
    current_age, retirement_age, lifespan,
    annual_return, initial_investment, locked_fraction,
    monthly_locked, target_withdrawal,
    use_advanced, monthly_map, lump_sum_map, monthly_unlocked, lump_sum,
    unlocked, locked, unlocked_fund, locked_fund, total_fund,
    month, contributed, withdrew,
    unlocked_at_60, locked_at_60, combined_at_60, withdrawal_post_60,
    custom_withdrawal_post_60, fund_post_60, fund_post_60_trajectory,
    surplus_at_90, pc, error

inputs == <<current_age, retirement_age, lifespan, annual_return,
            initial_investment, locked_fraction, monthly_locked,
            target_withdrawal, use_advanced, monthly_map, lump_sum_map,
            monthly_unlocked, lump_sum>>

simulation == <<unlocked, locked, unlocked_fund, locked_fund, total_fund,
                month, contributed, withdrew>>

analysis == <<unlocked_at_60, locked_at_60, combined_at_60, withdrawal_post_60>>

projection == <<custom_withdrawal_post_60, fund_post_60,
                fund_post_60_trajectory, surplus_at_90>>

vars == <<inputs, simulation, analysis, projection, pc, error>>

\* ------------------------------------------------------ exact arithmetic
Abs(x) == IF x < 0 THEN -x ELSE x

Max(a, b) == IF a >= b THEN a ELSE b

RECURSIVE Pow(_, _)
Pow(b, n) == IF n = 0 THEN 1 ELSE b * Pow(b, n - 1)

\* The growth factors the model draws: 1 / Base, 1 and Base.
Factors ==
    {[num |-> 1, den |-> Base], [num |-> 1, den |-> 1], [num |-> Base, den |-> 1]}

\* f ** 12 for each growth factor f.
TwelfthPower ==
    [f \in Factors |-> [num |-> Pow(f.num, MonthsPerYear),
                        den |-> Pow(f.den, MonthsPerYear)]]

\* annual_return = G^12 - 1 as a fraction in lowest terms, for each factor G.
AnnualReturns ==
    {[num |-> TwelfthPower[f].num - TwelfthPower[f].den,
      den |-> TwelfthPower[f].den] : f \in Factors}

\* (1 + annual_return) ** (1 / 12): the twelfth root of
\* (a.num + a.den) / a.den, found among Factors.
GrowthFactor(a) ==
    CHOOSE f \in Factors :
        TwelfthPower[f] = [num |-> a.num + a.den, den |-> a.den]

G == GrowthFactor(annual_return)

\* An amount without its high-order zero digits.
RECURSIVE Trim(_)
Trim(p) ==
    IF p = <<>> THEN p
    ELSE IF p[Len(p)] = 0 THEN Trim(SubSeq(p, 1, Len(p) - 1))
    ELSE p

Zero == <<>>

Const(c) == Trim(<<c>>)

Digit(p, k) == IF k \in 1..Len(p) THEN p[k] ELSE 0

PAdd(p, q) == Trim([k \in 1..Max(Len(p), Len(q)) |-> Digit(p, k) + Digit(q, k)])

PNeg(p) == [k \in 1..Len(p) |-> -p[k]]

PSub(p, q) == PAdd(p, PNeg(q))

\* p * G^n, n >= 0.
Shift(p, n) ==
    IF p = <<>> THEN p ELSE [k \in 1..(Len(p) + n) |-> IF k <= n THEN 0 ELSE p[k - n]]

PMul(p, q) ==
    IF p = <<>> \/ q = <<>> THEN <<>>
    ELSE LET Coef(k) ==
                 LET Term[i \in 0..Len(p)] ==
                         IF i = 0 THEN 0
                         ELSE Term[i - 1] + p[i] * Digit(q, k - i + 1)
                 IN Term[Len(p)]
         IN Trim([k \in 1..(Len(p) + Len(q) - 1) |-> Coef(k)])

MaxAbs(p) ==
    LET S == {Abs(p[k]) : k \in 1..Len(p)} \cup {0}
    IN CHOOSE x \in S : \A y \in S : y <= x

Clamp(x, K) == IF x > K THEN K ELSE IF x < -K THEN -K ELSE x

\* Horner's rule in base b over digits s[1] (most significant) .. s[i],
\* saturated at +-K.  With K above every digit and b >= 2 a saturated value
\* keeps its sign, so the sign of the result is the sign of the exact sum.
RECURSIVE Horner(_, _, _, _)
Horner(s, b, K, i) ==
    IF i = 0 THEN 0 ELSE Clamp(b * Horner(s, b, K, i - 1) + s[i], K)

RECURSIVE SumDigits(_, _)
SumDigits(p, i) == IF i = 0 THEN 0 ELSE SumDigits(p, i - 1) + p[i]

Reverse(p) == [k \in 1..Len(p) |-> p[Len(p) - k + 1]]

\* A number with the sign of the amount p at the growth factor f.
Eval(p, f) ==
    IF f.num = f.den THEN SumDigits(p, Len(p))
    ELSE IF f.den = 1 THEN Horner(Reverse(p), f.num, MaxAbs(p) + 1, Len(p))
    ELSE Horner(p, f.den, MaxAbs(p) + 1, Len(p))

Sgn(x) == IF x > 0 THEN 1 ELSE IF x < 0 THEN -1 ELSE 0

Sign(p) == Sgn(Eval(p, G))

Eq(p, q) == p = q \/ Sign(PSub(p, q)) = 0

Geq(p, q) == Sign(PSub(p, q)) >= 0

\* Quotients: [num, den] of amounts.
Rat(p) == [num |-> p, den |-> Const(1)]

RatSign(a) == Sign(a.num) * Sign(a.den)

RatMul(a, b) == [num |-> PMul(a.num, b.num), den |-> PMul(a.den, b.den)]

RatDiv(a, b) == [num |-> PMul(a.num, b.den), den |-> PMul(a.den, b.num)]

RatSub(a, b) ==
    IF a.den = b.den THEN [num |-> PSub(a.num, b.num), den |-> a.den]
    ELSE [num |-> PSub(PMul(a.num, b.den), PMul(b.num, a.den)),
          den |-> PMul(a.den, b.den)]

RatEq(a, b) == RatSign(RatSub(a, b)) = 0

\* (1 + monthly_return) ** n for an integer n of either sign.
GPow(n) ==
    IF n >= 0 THEN [num |-> Shift(Const(1), n), den |-> Const(1)]
    ELSE [num |-> Const(1), den |-> Shift(Const(1), -n)]

\* monthly_return = (1 + annual_return) ** (1 / 12) - 1, as the amount G - 1.
monthly_return == <<-1, 1>>

\* ------------------------------------------------------------------ inputs
Ages == (LockAge - YearsBefore60)..(LockAge + YearsAfter60)

CurrentAges == (LockAge - YearsBefore60)..LockAge

\* Lifespans short of 60 by a year, of 60, and beyond 60.
Lifespans == (LockAge - 1)..(LockAge + YearsAfter60)

\* The slider's ends and its default: 0.0, 0.5, 1.0.
LockedFractions ==
    {[num |-> 0, den |-> 1], [num |-> 1, den |-> 2], [num |-> 1, den |-> 1]}

\* Even amounts, so that both shares of the initial investment are whole.
InitialInvestments == {2 * InitialPairs}

MonthlyLockedAmounts == {MonthlyLockedAmount}

MonthlyUnlockedAmounts == {MonthlyUnlockedAmount}

LumpSums == {0, LumpSumAmount}

TargetWithdrawals == {TargetAmount}

CustomWithdrawals == {CustomAmount}

\* ---------------------------------------------------------------- timeline
months_total == (lifespan - current_age) * MonthsPerYear

months_to_retirement == (retirement_age - current_age) * MonthsPerYear

months_to_60 == (LockAge - current_age) * MonthsPerYear

months_post_60 == (lifespan - LockAge) * MonthsPerYear

years_to_retirement == retirement_age - current_age

\* The "Year" column of the advanced editor: range(years_to_retirement).
EditorYears(cur, ret) == {cur + i : i \in 0..(ret - cur - 1)}

\* dict.get(key, 0)
Get(map, key) == IF key \in DOMAIN map THEN map[key] ELSE 0

NoMap == [y \in {} |-> 0]

\* int(np.floor(current_age + month / 12))
year(m) == current_age + (m \div MonthsPerYear)

\* ------------------------------------------------------------ month's step
InvestmentPhase(m) == m <= months_to_retirement

WithdrawalPhaseFromRetirementMonth(m) == months_to_retirement <= m /\ m <= months_to_60

WithdrawalPhase(m) == months_to_retirement < m /\ m <= months_to_60

FirstMonthOfYear(m) == m % MonthsPerYear = 1

AdvancedDeposit(m, mmap, lmap) ==
    Get(mmap, year(m)) + (IF FirstMonthOfYear(m) THEN Get(lmap, year(m)) ELSE 0)

SimpleDeposit(m, mu, ls) ==
    mu + (IF FirstMonthOfYear(m) THEN ls ELSE 0)

Deposit(m) ==
    IF use_advanced THEN AdvancedDeposit(m, monthly_map, lump_sum_map)
    ELSE SimpleDeposit(m, monthly_unlocked, lump_sum)

GrowWithoutMinusOne(p) == PAdd(p, Shift(p, 1))

\* p * (1 + monthly_return)
Grow(p) == Shift(p, 1)

WithdrawUnclamped(u) == PSub(u, Const(target_withdrawal))

Withdraw(u) ==
    IF Geq(u, Const(target_withdrawal)) THEN PSub(u, Const(target_withdrawal))
    ELSE Zero

StepUnlockedGrowthFirst(u, m, dep) ==
    LET grown == Grow(u)
        invested == IF InvestmentPhase(m) THEN PAdd(grown, Const(dep)) ELSE grown
    IN IF WithdrawalPhase(m) THEN Withdraw(invested) ELSE invested

\* One iteration of the loop for the unlocked bucket, given the deposit dep
\* of month m.
StepUnlocked(u, m, dep) ==
    LET invested == IF InvestmentPhase(m) THEN PAdd(u, Const(dep)) ELSE u
        grown == Grow(invested)
    IN IF WithdrawalPhase(m) THEN Withdraw(grown) ELSE grown

StepLockedCoversShortfall(l, m) ==
    LET grown == Grow(IF InvestmentPhase(m) THEN PAdd(l, Const(monthly_locked)) ELSE l)
    IN IF WithdrawalPhase(m) /\ ~Geq(Grow(unlocked), Const(target_withdrawal))
       THEN PSub(grown, PSub(Const(target_withdrawal), Grow(unlocked)))
       ELSE grown

StepLocked(l, m) ==
    Grow(IF InvestmentPhase(m) THEN PAdd(l, Const(monthly_locked)) ELSE l)

\* ------------------------------------------------------------------- state
NoAmount == Zero

NoRat == Rat(Zero)

Init ==
    /\ current_age \in CurrentAges
    /\ retirement_age \in Ages
    /\ lifespan \in Lifespans
    /\ annual_return \in AnnualReturns
    /\ initial_investment \in InitialInvestments
    /\ locked_fraction \in LockedFractions
    /\ monthly_locked \in MonthlyLockedAmounts
    /\ target_withdrawal \in TargetWithdrawals
    /\ use_advanced \in BOOLEAN
    /\ IF use_advanced
       THEN /\ monthly_map \in [EditorYears(current_age, retirement_age) -> MonthlyUnlockedAmounts]
            /\ lump_sum_map \in [EditorYears(current_age, retirement_age) -> LumpSums]
            /\ monthly_unlocked = 0
            /\ lump_sum = 0
       ELSE /\ monthly_map = NoMap
            /\ lump_sum_map = NoMap
            /\ monthly_unlocked \in MonthlyUnlockedAmounts
            /\ lump_sum \in LumpSums
    /\ unlocked = NoAmount
    /\ locked = NoAmount
    /\ unlocked_fund = <<>>
    /\ locked_fund = <<>>
    /\ total_fund = <<>>
    /\ month = 0
    /\ contributed = FALSE
    /\ withdrew = FALSE
    /\ unlocked_at_60 = NoAmount
    /\ locked_at_60 = NoAmount
    /\ combined_at_60 = NoAmount
    /\ withdrawal_post_60 = NoRat
    /\ custom_withdrawal_post_60 = NoRat
    /\ fund_post_60 = NoRat
    /\ fund_post_60_trajectory = <<>>
    /\ surplus_at_90 = NoRat
    /\ pc = "initialization"
    /\ error = "none"

\* initial_investment * (1 - locked_fraction), initial_investment * locked_fraction
InitialUnlocked ==
    Const((initial_investment * (locked_fraction.den - locked_fraction.num))
              \div locked_fraction.den)

InitialLocked ==
    Const((initial_investment * locked_fraction.num) \div locked_fraction.den)

Initialization ==
    /\ pc = "initialization"
    /\ unlocked' = InitialUnlocked
    /\ locked' = InitialLocked
    /\ unlocked_fund' = <<InitialUnlocked>>
    /\ locked_fund' = <<InitialLocked>>
    /\ total_fund' = <<PAdd(InitialUnlocked, InitialLocked)>>
    /\ pc' = "simulation"
    /\ UNCHANGED <<inputs, month, contributed, withdrew, analysis, projection, error>>

\* range(1, months_total + 1) has a month after `month`.
MonthsLeftExclusive == month + 1 < months_total

MonthsLeft == month < months_total

\* One iteration of `for month in range(1, months_total + 1)`.
SimulateMonth ==
    /\ pc = "simulation"
    /\ MonthsLeft
    /\ LET m == month + 1
           u == StepUnlocked(unlocked, m, Deposit(m))
           l == StepLocked(locked, m)
       IN /\ month' = m
          /\ contributed' = InvestmentPhase(m)
          /\ withdrew' = WithdrawalPhase(m)
          /\ unlocked' = u
          /\ locked' = l
          /\ unlocked_fund' = Append(unlocked_fund, u)
          /\ locked_fund' = Append(locked_fund, l)
          /\ total_fund' = Append(total_fund, PAdd(u, l))
    /\ UNCHANGED <<inputs, analysis, projection, pc, error>>

\* ------------------------------------------------------ analysis at age 60
\* A Python list index: i >= 0 counts from the front, i < 0 from the back.
IndexOK(s, i) == -Len(s) <= i /\ i < Len(s)

At(s, i) == IF i >= 0 THEN s[i + 1] ELSE s[Len(s) + i + 1]

\* combined * (r * (1 + r) ** n) / ((1 + r) ** n - 1)
AnnuityNumerator(combined, n) ==
    RatMul(Rat(combined), RatMul(Rat(monthly_return), GPow(n)))

AnnuityDenominator(n) == RatSub(GPow(n), Rat(Const(1)))

UseAnnuityFormula == Sign(monthly_return) > 0

\* The divisor of the maximum sustainable withdrawal.
Divisor(n) ==
    IF UseAnnuityFormula THEN AnnuityDenominator(n) ELSE Rat(Const(n))

MaxSustainable(combined, n) ==
    IF UseAnnuityFormula
    THEN RatDiv(AnnuityNumerator(combined, n), AnnuityDenominator(n))
    ELSE RatDiv(Rat(combined), Rat(Const(n)))

AnalysisAt60 ==
    /\ pc = "simulation"
    /\ ~MonthsLeft
    /\ IF ~IndexOK(unlocked_fund, months_to_60)
       THEN /\ pc' = "error"
            /\ error' = "IndexError"
            /\ UNCHANGED analysis
       ELSE LET u60 == At(unlocked_fund, months_to_60)
                l60 == At(locked_fund, months_to_60)
                c60 == PAdd(u60, l60)
            IN /\ unlocked_at_60' = u60
               /\ locked_at_60' = l60
               /\ combined_at_60' = c60
               /\ IF RatSign(Divisor(months_post_60)) = 0
                  THEN /\ pc' = "error"
                       /\ error' = "ZeroDivisionError"
                       /\ UNCHANGED withdrawal_post_60
                  ELSE /\ withdrawal_post_60' = MaxSustainable(c60, months_post_60)
                       /\ pc' = "plot"
                       /\ UNCHANGED error
    /\ UNCHANGED <<inputs, simulation, projection>>

\* len(np.arange(0, months_total + 1))
AgesLength == IF months_total + 1 > 0 THEN months_total + 1 ELSE 0

\* The data frame of the fund chart takes columns of one length only.
PlotTrajectory ==
    /\ pc = "plot"
    /\ IF Len(unlocked_fund) = AgesLength
       THEN pc' = "custom" /\ UNCHANGED error
       ELSE pc' = "error" /\ error' = "ValueError"
    /\ UNCHANGED <<inputs, simulation, analysis, projection>>

\* ------------------------------------------------- custom post-60 analysis
\* The monthly withdrawal the user enters: an amount, or the maximum
\* sustainable withdrawal the script has just reported.
CustomInput ==
    /\ pc = "custom"
    /\ custom_withdrawal_post_60' \in
           {Rat(Const(c)) : c \in CustomWithdrawals} \cup {withdrawal_post_60}
    /\ fund_post_60' = Rat(combined_at_60)
    /\ fund_post_60_trajectory' = <<>>
    /\ pc' = "projection"
    /\ UNCHANGED <<inputs, simulation, analysis, surplus_at_90, error>>

RatGrow(a) == [num |-> Grow(a.num), den |-> a.den]

\* fund_post_60 after growth and withdrawal, before max(., 0).
BeforeClamp(fund, w) == RatSub(RatGrow(fund), w)

ClampAtZero(a) == IF RatSign(a) < 0 THEN Rat(Zero) ELSE a

\* One iteration of `for i in range(months_post_60)`.
ProjectMonth ==
    /\ pc = "projection"
    /\ Len(fund_post_60_trajectory) < months_post_60
    /\ LET f == ClampAtZero(BeforeClamp(fund_post_60, custom_withdrawal_post_60))
       IN /\ fund_post_60' = f
          /\ fund_post_60_trajectory' = Append(fund_post_60_trajectory, f)
    /\ UNCHANGED <<inputs, simulation, analysis, custom_withdrawal_post_60,
                   surplus_at_90, pc, error>>

\* surplus_at_90 = fund_post_60_trajectory[-1]
SurplusAt90 ==
    /\ pc = "projection"
    /\ Len(fund_post_60_trajectory) >= months_post_60
    /\ IF IndexOK(fund_post_60_trajectory, -1)
       THEN /\ surplus_at_90' = At(fund_post_60_trajectory, -1)
            /\ pc' = "done"
            /\ UNCHANGED error
       ELSE /\ pc' = "error"
            /\ error' = "IndexError"
            /\ UNCHANGED surplus_at_90
    /\ UNCHANGED <<inputs, simulation, analysis, custom_withdrawal_post_60,
                   fund_post_60, fund_post_60_trajectory>>

Next ==
    \/ Initialization
    \/ SimulateMonth
    \/ AnalysisAt60
    \/ PlotTrajectory
    \/ CustomInput
    \/ ProjectMonth
    \/ SurplusAt90

Spec == Init /\ [][Next]_vars

\* ================================================================== claims
\* The snapshot before the newest one (month >= 1).
PrevUnlocked == unlocked_fund[month]

PrevLocked == locked_fund[month]

Simulated == pc # "initialization" /\ month >= 1

\* The loop has appended its last snapshot: the trajectory is complete.
TrajectoryComplete == pc = "simulation" /\ ~MonthsLeft

\* The newest month was a withdrawal month that found less than the target.
Shortfall == withdrew /\ ~Geq(Grow(PrevUnlocked), Const(target_withdrawal))

\* The invariant of the plan's parameters.
ValidParameters ==
    /\ 0 <= current_age /\ current_age < retirement_age /\ retirement_age <= lifespan
    /\ 0 <= locked_fraction.num /\ locked_fraction.num <= locked_fraction.den
    /\ annual_return.num + annual_return.den > 0

\* ---- C1
C1_Preconditions ==
    /\ annual_return.num + annual_return.den > 0
    /\ initial_investment >= 0
    /\ 0 <= locked_fraction.num /\ locked_fraction.num <= locked_fraction.den
    /\ monthly_locked >= 0 /\ monthly_unlocked >= 0 /\ lump_sum >= 0
    /\ \A y \in DOMAIN monthly_map : monthly_map[y] >= 0
    /\ \A y \in DOMAIN lump_sum_map : lump_sum_map[y] >= 0
    /\ target_withdrawal >= 0

\* C1: with annual_return > -1 and non-negative initial investment, locked
\* fraction in 0..1, contributions and target withdrawal, every snapshot of
\* the trajectory has unlocked >= 0 and locked >= 0, the months with an
\* unlocked balance below the target withdrawal included.
C1_ClampInvariant ==
    C1_Preconditions =>
        /\ pc # "initialization" => Sign(unlocked) >= 0 /\ Sign(locked) >= 0
        /\ TrajectoryComplete =>
               \A i \in 1..Len(unlocked_fund) :
                   Sign(unlocked_fund[i]) >= 0 /\ Sign(locked_fund[i]) >= 0

C1_Witness ==
    /\ Simulated /\ Shortfall
    /\ Sign(PrevUnlocked) > 0
    /\ Sign(unlocked) = 0

\* ---- C2
\* C2: a contribution is applied in month m iff 0 < m <= months_to_retirement,
\* a pre-60 withdrawal iff months_to_retirement < m <= months_to_60, never
\* both, and in a month after both windows neither is applied: the balances
\* change by growth only.
C2_PhaseSchedule ==
    Simulated =>
        /\ contributed <=> (0 < month /\ month <= months_to_retirement)
        /\ withdrew <=> (months_to_retirement < month /\ month <= months_to_60)
        /\ ~(contributed /\ withdrew)
        /\ (month > Max(months_to_retirement, months_to_60)) =>
               /\ ~contributed /\ ~withdrew
               /\ Eq(unlocked, Grow(PrevUnlocked))
               /\ Eq(locked, Grow(PrevLocked))

C2_Witness ==
    /\ Simulated
    /\ 0 < months_to_retirement /\ months_to_retirement < months_to_60
    /\ month > months_to_60
    /\ Sign(unlocked) > 0
    /\ G.num # G.den

\* ---- C3
\* C3: in every month of the drawdown window the locked balance after the
\* month is the locked balance before it times (1 + monthly_return), whether
\* the withdrawal was paid in full or the unlocked bucket was set to zero.
C3_LockedUntouched ==
    (Simulated /\ withdrew) => Eq(locked, Grow(PrevLocked))

C3_Witness ==
    /\ Simulated /\ Shortfall
    /\ Sign(locked) > 0
    /\ Sign(unlocked) = 0
    /\ G.num # G.den

\* ---- C4
InitialUnlockedShare ==
    (initial_investment * (locked_fraction.den - locked_fraction.num))
        \div locked_fraction.den

InitialLockedShare ==
    (initial_investment * locked_fraction.num) \div locked_fraction.den

ContributionMonths(m) == Cardinality({k \in 1..m : k <= months_to_retirement})

RECURSIVE RunningSum(_)
RunningSum(m) ==
    IF m = 0 THEN InitialUnlockedShare
    ELSE LET before == RunningSum(m - 1)
             paid == IF m <= months_to_retirement THEN before + Deposit(m) ELSE before
         IN IF months_to_retirement < m /\ m <= months_to_60
            THEN IF paid >= target_withdrawal THEN paid - target_withdrawal ELSE 0
            ELSE paid

\* C4: with annual_return = 0 there is no growth: at every month index the
\* locked balance is the initial locked share plus the monthly locked
\* contributions of the months so far, and the unlocked balance is the
\* running sum of the initial unlocked share plus the deposits minus the
\* pre-60 withdrawals, set to zero in a withdrawal month that finds less
\* than the target.
C4_ZeroReturnRunningSums ==
    (annual_return.num = 0 /\ pc # "initialization") =>
        /\ Eq(locked, Const(InitialLockedShare + monthly_locked * ContributionMonths(month)))
        /\ Eq(unlocked, Const(RunningSum(month)))

C4_Witness ==
    /\ annual_return.num = 0
    /\ Simulated /\ Shortfall
    /\ month > months_to_retirement + 1
    /\ Sign(PrevUnlocked) > 0
    /\ Sign(locked) > 0

\* ---- C5
\* C5: run with the computed maximum sustainable withdrawal, the post-60
\* projection never has a negative balance before the clamp and ends with a
\* balance of exactly zero, for lifespan > 60, a balance at 60 >= 0 and any
\* monthly_return > -1.
C5_ExactDepletion ==
    (/\ pc \in {"projection", "done"}
     /\ ValidParameters
     /\ lifespan > LockAge
     /\ Sign(combined_at_60) >= 0
     /\ RatEq(custom_withdrawal_post_60, withdrawal_post_60)) =>
        IF Len(fund_post_60_trajectory) < months_post_60
        THEN RatSign(BeforeClamp(fund_post_60, custom_withdrawal_post_60)) >= 0
        ELSE RatSign(fund_post_60) = 0

\* ---- C6
InvalidAgeOrdering == retirement_age > lifespan \/ current_age > retirement_age

\* C6: with retirement_age > lifespan or current_age > retirement_age the
\* run ends in a configuration error and produces no trajectory and no
\* result.
C6_InvalidAgesReported ==
    InvalidAgeOrdering =>
        /\ unlocked_fund = <<>>
        /\ pc \notin {"plot", "custom", "projection", "done"}

\* ---- C7
\* C7: the trajectory has one snapshot per month index 0..months_total, in
\* month order, months_total + 1 in all; snapshot 0 is the split of the
\* initial investment by the locked fraction with nothing applied; each
\* snapshot's total is its unlocked plus its locked balance.
C7_Trajectory ==
    (months_total >= 0 /\ pc # "initialization") =>
        /\ Len(unlocked_fund) = month + 1
        /\ Len(locked_fund) = month + 1
        /\ Len(total_fund) = month + 1
        /\ pc # "simulation" => Len(unlocked_fund) = months_total + 1
        /\ Eq(unlocked_fund[1], Const(InitialUnlockedShare))
        /\ Eq(locked_fund[1], Const(InitialLockedShare))
        /\ unlocked_fund[month + 1] = unlocked /\ locked_fund[month + 1] = locked
        /\ Eq(total_fund[month + 1], PAdd(unlocked, locked))
        /\ TrajectoryComplete =>
               \A i \in 1..Len(total_fund) :
                   Eq(total_fund[i], PAdd(unlocked_fund[i], locked_fund[i]))

C7_Witness ==
    /\ pc = "done"
    /\ months_total = (YearsBefore60 + YearsAfter60) * MonthsPerYear
    /\ Len(unlocked_fund) = months_total + 1
    /\ Sign(unlocked_fund[1]) > 0 /\ Sign(locked_fund[1]) > 0

\* ---- C8
\* C8: in an accumulation month each bucket's recorded balance is (previous
\* balance + the month's contribution) * (1 + monthly_return); in a
\* drawdown month the recorded unlocked balance is g - target_withdrawal
\* when g >= target_withdrawal and 0 otherwise, g being the previous
\* unlocked balance * (1 + monthly_return).
C8_StepOrder ==
    Simulated =>
        /\ (0 < month /\ month <= months_to_retirement) =>
               /\ Eq(unlocked, Grow(PAdd(PrevUnlocked, Const(Deposit(month)))))
               /\ Eq(locked, Grow(PAdd(PrevLocked, Const(monthly_locked))))
        /\ (months_to_retirement < month /\ month <= months_to_60) =>
               LET g == Grow(PrevUnlocked)
               IN IF Geq(g, Const(target_withdrawal))
                  THEN Eq(unlocked, PSub(g, Const(target_withdrawal)))
                  ELSE Sign(unlocked) = 0

C8_Witness ==
    /\ Simulated /\ withdrew /\ ~Shortfall
    /\ G.num > G.den
    /\ Sign(unlocked) > 0
    /\ Deposit(1) > 0

\* ---- C9
UniformSchedule ==
    /\ use_advanced
    /\ DOMAIN monthly_map # {}
    /\ \A y, z \in DOMAIN monthly_map :
           monthly_map[y] = monthly_map[z] /\ lump_sum_map[y] = lump_sum_map[z]

RECURSIVE SimpleUnlocked(_, _, _)
SimpleUnlocked(m, X, L) ==
    IF m = 0 THEN InitialUnlocked
    ELSE StepUnlocked(SimpleUnlocked(m - 1, X, L), m, SimpleDeposit(m, X, L))

\* C9: with the same monthly amount X and lump sum L at every age of the
\* advanced editor, the trajectory is, at every month index, that of the
\* simple mode with monthly_unlocked = X and lump_sum = L; every
\* accumulation month looks up an age that is a key of the schedule.
C9_ModesAgree ==
    (ValidParameters /\ UniformSchedule /\ Simulated) =>
        /\ contributed => year(month) \in DOMAIN monthly_map
        /\ Eq(unlocked,
              SimpleUnlocked(month, monthly_map[current_age], lump_sum_map[current_age]))

\* ---- C10
\* C10: every parameter set with 0 <= current_age < retirement_age <=
\* lifespan, 0 <= locked_fraction <= 1 and annual_return > -1 runs to its
\* end without an error.
C10_RunsToCompletion == ValidParameters => pc # "error"

====
